---------------------------- MODULE Spec2Model ----------------------------
(***************************************************************************)
(* State-machine model of the two dashboard pages of finance_agent_web:    *)
(*   static/enhanced_app.js  (enhanced page: fetchStockData, tab buttons,  *)
(*                            loadMarketOverview, two charts)              *)
(*   static/app.js           (simple page: fetchStock, one chart)          *)
(* Every async function is cut at its awaits: the code up to the first     *)
(* await runs in the event handler that calls it, and each continuation is *)
(* one action of its own.  Optional values are sequences of length 0 or 1. *)
(***************************************************************************)
EXTENDS Integers, Sequences, FiniteSets, TLC

\* ------------------------------------------------------------------ bounds
MaxQueries == 2        \* stock queries issued in one run
MaxClicks  == 1        \* indicator tab clicks in one run
MaxPoints  == 1        \* rows of the data / points array of a response

\* ------------------------------------------------------- optional values
None      == << >>
Some(v)   == << v >>
IsSome(o) == o /= << >>
Get(o)    == o[1]

\* ---------------------------------------------------------------- strings
\* A string is a sequence of characters; Space is the one whitespace char.
Space == " "

RECURSIVE TrimStart(_)
TrimStart(s) ==
  IF s /= << >> /\ Head(s) = Space THEN TrimStart(Tail(s)) ELSE s

RECURSIVE TrimEnd(_)
TrimEnd(s) ==
  IF s /= << >> /\ s[Len(s)] = Space THEN TrimEnd(SubSeq(s, 1, Len(s) - 1)) ELSE s

\* String.prototype.trim
Trim(s) == TrimEnd(TrimStart(s))

\* JavaScript truthiness of a string: the empty string is the only falsy one
Truthy(s) == s /= << >>

\* values the symbol input can hold (markup default or typed by the user)
InputValues ==
  { << >>, << " " >>, << "A" >>, << " ", "M", " " >> }

\* --------------------------------------------------------------- responses
\* Response.ok
ResponseOk(st) == st >= 200 /\ st <= 299

\* the backend's prices differ from one symbol to the other
BasePrice(sym) == IF sym = << "A" >> THEN 100 ELSE IF sym = << "M" >> THEN 200 ELSE 300

\* rows of body.data of /api/stock_data for symbol sym
Rows(sym, n) ==
  [ i \in 1..n |-> [ date |-> i, close |-> BasePrice(sym) + i, volume |-> 1000 + i ] ]

RsiSeries(n) == [ i \in 1..n |-> [ value |-> 50 + i ] ]

StockInfoOf(sym) == [ error |-> None, name |-> sym ]

SignalsOf == [ overall_signal |-> "bullish", signal_strength |-> 1,
               signals |-> Some(<< "golden cross" >>) ]

TechnicalOf == [ summary |-> Some("summary"), signals |-> Some(SignalsOf) ]

\* the well-formed body of /api/stock_data for symbol sym
FullBody(sym) ==
  [ error |-> None, symbol |-> sym, period |-> "1mo",
    data |-> Some(Rows(sym, MaxPoints)),
    rsi |-> Some(RsiSeries(MaxPoints)),
    stock_info |-> Some(StockInfoOf(sym)),
    technical_indicators |-> Some(TechnicalOf),
    analysis |-> Some("analysis") ]

BodyShapes == { "full", "noRsi", "noStockInfo", "noTechnical", "noData", "error" }

\* a body of /api/stock_data, by the fields it carries
StockDataBody(sym, shape) ==
  CASE shape = "full"           -> FullBody(sym)
    [] shape = "noRsi"          -> [ FullBody(sym) EXCEPT !.rsi = None ]
    [] shape = "noStockInfo"    -> [ FullBody(sym) EXCEPT !.stock_info = None ]
    [] shape = "noTechnical"    -> [ FullBody(sym) EXCEPT !.technical_indicators = None ]
    [] shape = "noData"         -> [ FullBody(sym) EXCEPT !.data = None ]
    [] shape = "error"          ->
         [ error |-> Some("symbol not found"), symbol |-> sym, period |-> "1mo",
           data |-> None, rsi |-> None, stock_info |-> None,
           technical_indicators |-> None, analysis |-> None ]


\* bodies of /api/stock (simple page); amounts are in hundredths
SummaryOf(sym) ==
  [ symbol |-> sym, first_time |-> 1, last_time |-> MaxPoints,
    first_close |-> 100 * BasePrice(sym), last_close |-> 100 * BasePrice(sym) - 123,
    change |-> -123, change_pct |-> -85,
    high |-> 100 * BasePrice(sym) + 50, low |-> 100 * BasePrice(sym) - 200 ]

PointsOf(sym, n) == [ i \in 1..n |-> [ time |-> i, close |-> BasePrice(sym) + i ] ]

FullStockBody(sym) ==
  [ error |-> None, points |-> Some(PointsOf(sym, MaxPoints)),
    summary |-> Some(SummaryOf(sym)), llm_analysis |-> Some("llm analysis") ]

StockShapes == { "full", "noLlm", "noSummary", "noPoints", "error" }

StockBody(sym, shape) ==
  CASE shape = "full"      -> FullStockBody(sym)
    [] shape = "noLlm"     -> [ FullStockBody(sym) EXCEPT !.llm_analysis = None ]
    [] shape = "noSummary" -> [ FullStockBody(sym) EXCEPT !.summary = None ]
    [] shape = "noPoints"  -> [ FullStockBody(sym) EXCEPT !.points = None ]
    [] shape = "error"     ->
         [ error |-> Some("symbol not found"), points |-> None,
           summary |-> None, llm_analysis |-> None ]

\* a response: its HTTP status and what response.json() yields, None when the
\* body is no JSON (json() rejects), else the parsed body
Response(st, json) == [ status |-> st, json |-> json ]

\* the responses the backend can give to a query of symbol sym on the page
Responses(pg, sym) ==
  LET bodies == IF pg = "enhanced"
                THEN { StockDataBody(sym, sh) : sh \in BodyShapes }
                ELSE { StockBody(sym, sh) : sh \in StockShapes }
      full   == IF pg = "enhanced" THEN FullBody(sym) ELSE FullStockBody(sym)
  IN  { Response(200, Some(b)) : b \in bodies }
        \cup { Response(200, None), Response(500, None), Response(500, Some(full)) }

\* ------------------------------------------------------------ status line
NoMsg == [ text |-> "", code |-> 0 ]

InitialStatus ==
  [ className |-> "initial", kind |-> "initial", symbol |-> << >>, count |-> 0, msg |-> NoMsg ]

\* enhanced_app.js 97-98
StatusLoading(sym) ==
  [ className |-> "status loading", kind |-> "loading", symbol |-> sym, count |-> 0, msg |-> NoMsg ]

\* data.error || `HTTP错误: ${response.status}`
ErrorMsg(error, st) ==
  IF IsSome(error) THEN [ text |-> Get(error), code |-> 0 ] ELSE [ text |-> "HTTP", code |-> st ]

\* enhanced_app.js 118-119
StatusApiError(error, st) ==
  [ className |-> "status error", kind |-> "apiError", symbol |-> << >>, count |-> 0,
    msg |-> ErrorMsg(error, st) ]

\* enhanced_app.js 132-133
StatusSuccess(sym, n) ==
  [ className |-> "status success", kind |-> "success", symbol |-> sym, count |-> n, msg |-> NoMsg ]

\* enhanced_app.js 147-148
StatusException(name) ==
  [ className |-> "status error", kind |-> "exception", symbol |-> << >>, count |-> 0,
    msg |-> [ text |-> name, code |-> 0 ] ]

\* app.js sets textContent only: the class of the status element is kept
SimpleStatus(old, new) == [ new EXCEPT !.className = old.className ]

\* ------------------------------------------------------------ text panels
Placeholder(k) == [ kind |-> k, name |-> << >> ]
TextPanel(k, t) == [ kind |-> k, text |-> t ]
SignalPanel(k, overall, strength, items) ==
  [ kind |-> k, overall |-> overall, strength |-> strength, items |-> items ]

\* the text shown for a missing or empty value: 'N/A'
NotAvailable == << "N", "/", "A" >>

\* enhanced_app.js 152-212; line 178: ${stockInfo.name || 'N/A'}
updateStockInfo(stockInfo) ==
  IF ~IsSome(stockInfo) \/ IsSome(Get(stockInfo).error)
  THEN Placeholder("unavailable")
  ELSE [ kind |-> "info",
         name |-> IF Truthy(Get(stockInfo).name) THEN Get(stockInfo).name ELSE NotAvailable ]

updateTechnicalSummary(summary) ==
  TextPanel("pre", IF IsSome(summary) THEN Get(summary) ELSE "no technical analysis data")

updateTradingSignals(signals) ==
  IF ~IsSome(signals) \/ ~IsSome(Get(signals).signals)
  THEN SignalPanel("noSignals", "", 0, << >>)
  ELSE SignalPanel("signals", Get(signals).overall_signal, Get(signals).signal_strength,
                   Get(Get(signals).signals))

updateAnalysis(analysis) ==
  TextPanel("pre", IF IsSome(analysis) THEN Get(analysis) ELSE "no analysis data")

\* Number.prototype.toFixed(2) of an amount given in hundredths
ToFixed2(c) ==
  LET a == IF c < 0 THEN -c ELSE c
  IN  [ neg |-> c < 0, whole |-> a \div 100, frac |-> a % 100 ]

\* app.js 26-36
SummaryLines(s) ==
  [ kind |-> "lines", symbol |-> s.symbol, first_time |-> s.first_time, last_time |-> s.last_time,
    first_close |-> ToFixed2(s.first_close), last_close |-> ToFixed2(s.last_close),
    change |-> ToFixed2(s.change), change_pct |-> ToFixed2(s.change_pct),
    high |-> ToFixed2(s.high), low |-> ToFixed2(s.low) ]

SummaryPlaceholder(k) ==
  [ kind |-> k, symbol |-> << >>, first_time |-> 0, last_time |-> 0,
    first_close |-> ToFixed2(0), last_close |-> ToFixed2(0), change |-> ToFixed2(0),
    change_pct |-> ToFixed2(0), high |-> ToFixed2(0), low |-> ToFixed2(0) ]

\* ----------------------------------------------------------------- charts
\* A chart widget: what it was constructed with, and how often destroy()
\* was called on it.  src is the response object it was rendered from.
NewChart(src, kind, labels, datasets, title) ==
  [ src |-> src, kind |-> kind, labels |-> labels, datasets |-> datasets,
    title |-> title, destroyed |-> 0 ]

\* if (chart) chart.destroy();  the variable keeps referring to the instance
DestroyIfAny(c) ==
  IF IsSome(c) THEN Some([ Get(c) EXCEPT !.destroyed = @ + 1 ]) ELSE None

Live(c) == IsSome(c) /\ Get(c).destroyed = 0

Map(f(_), s) == [ i \in 1..Len(s) |-> f(s[i]) ]

\* values Math.random() * 2 - 1 is drawn from
RandomValues == { -1, 1 }
RandomSeqs(n) == [ 1..n -> RandomValues ]

\* renderPriceChart(data): the new value of priceChart, and whether it threw
renderPriceChart(old, data) ==
  LET gone == DestroyIfAny(old)
  IN  IF ~IsSome(data.data)
      THEN [ chart |-> gone, threw |-> TRUE ]
      ELSE LET rows == Get(data.data)
               date(item)  == item.date
               close(item) == item.close
           IN  [ chart |-> Some(NewChart(data, "price", Map(date, rows),
                                         << [ label |-> "close", data |-> Map(close, rows) ] >>,
                                         "price")),
                 threw |-> FALSE ]

\* the switch of renderIndicatorChart: datasets and title for the kind
IndicatorDatasets(data, kind, rand) ==
  LET rows == Get(data.data)
      value(item)  == item.value
      volume(item) == item.volume
  IN  CASE kind = "rsi" ->
             IF IsSome(data.rsi) /\ Len(Get(data.rsi)) > 0
             THEN [ datasets |-> << [ label |-> "RSI", data |-> Map(value, Get(data.rsi)) ] >>,
                    title |-> "RSI" ]
             ELSE [ datasets |-> << >>, title |-> "" ]
        [] kind = "macd" ->
             [ datasets |-> << [ label |-> "MACD", data |-> rand ] >>, title |-> "MACD" ]
        [] kind = "volume" ->
             [ datasets |-> << [ label |-> "volume", data |-> Map(volume, rows) ] >>,
               title |-> "volume" ]
        [] OTHER -> [ datasets |-> << >>, title |-> "" ]

\* renderIndicatorChart(data) under the selected kind; rand is what the
\* calls of Math.random() return (read for macd only)
renderIndicatorChart(old, data, kind, rand) ==
  LET gone == DestroyIfAny(old)
  IN  IF ~IsSome(data.data)
      THEN [ chart |-> gone, threw |-> TRUE ]
      ELSE LET rows == Get(data.data)
               date(item) == item.date
               d == IndicatorDatasets(data, kind, rand)
           IN  [ chart |-> Some(NewChart(data, kind, Map(date, rows), d.datasets, d.title)),
                 threw |-> FALSE ]

\* the random draws a render of data under kind consumes
RandomDraws(data, kind) ==
  IF kind = "macd" /\ IsSome(data.data)
  THEN RandomSeqs(Len(Get(data.data)))
  ELSE { << >> }

\* app.js renderChart(labels, data, symbol)
renderChart(old, src, labels, closes, symbol) ==
  LET gone == DestroyIfAny(old)
  IN  Some(NewChart(src, "simple", labels, << [ label |-> symbol, data |-> closes ] >>, ""))

\* ---------------------------------------------------------- market overview
MaxIndices == 2        \* entries of the market_overview mapping

IndexEntry(i) ==
  [ name |-> i,
    info |-> [ current_price |-> Some(100000 + i), change |-> 150 - 100 * i,
               change_pct |-> 15 - 10 * i ] ]

OverviewShapes == { "full", "empty", "noMapping", "error" }

OverviewBody(shape) ==
  CASE shape = "full"      ->
         [ error |-> None, market_overview |-> Some([ i \in 1..MaxIndices |-> IndexEntry(i) ]) ]
    [] shape = "empty"     -> [ error |-> None, market_overview |-> Some(<< >>) ]
    [] shape = "noMapping" -> [ error |-> None, market_overview |-> None ]
    [] shape = "error"     -> [ error |-> Some("overview failed"), market_overview |-> None ]

\* the responses the backend can give to /api/market_overview
OverviewResponses ==
  { Response(200, Some(OverviewBody(sh))) : sh \in OverviewShapes }
    \cup { Response(200, None), Response(500, Some(OverviewBody("full"))) }

\* enhanced_app.js 67-78: the card of one entry
IndexCard(e) ==
  [ name |-> e.name, price |-> ToFixed2(Get(e.info.current_price)),
    changeClass  |-> IF e.info.change_pct >= 0 THEN "positive" ELSE "negative",
    changeSymbol |-> IF e.info.change_pct >= 0 THEN "+" ELSE "",
    change |-> ToFixed2(e.info.change), change_pct |-> ToFixed2(e.info.change_pct) ]

Grid(k, cards) == [ kind |-> k, cards |-> cards ]

\* a loadMarketOverview that takes an empty mapping for a failure
OverviewGridEmptyFails(st, body) ==
  IF ~IsSome(body) THEN Grid("failed", << >>)
  ELSE LET data == Get(body)
       IN  IF ~ResponseOk(st) \/ IsSome(data.error) THEN Grid("failed", << >>)
           ELSE IF ~IsSome(data.market_overview) \/ Get(data.market_overview) = << >>
           THEN Grid("failed", << >>)
           ELSE Grid("cards", Map(IndexCard, Get(data.market_overview)))

\* the body of loadMarketOverview after `await response.json()`
OverviewGrid(st, body) ==
  IF ~IsSome(body) THEN Grid("failed", << >>)                        \* json() rejected: catch
  ELSE LET data == Get(body)
       IN  IF ~ResponseOk(st) \/ IsSome(data.error) THEN Grid("failed", << >>)
           ELSE IF ~IsSome(data.market_overview) THEN Grid("failed", << >>)  \* Object.entries(undefined) throws
           ELSE LET entries == Get(data.market_overview)
                IN  IF \E i \in 1..Len(entries) : ~IsSome(entries[i].info.current_price)
                    THEN Grid("failed", << >>)                       \* toFixed of undefined throws
                    ELSE Grid("cards", Map(IndexCard, entries))

\* ------------------------------------------------------------------- state
VARIABLES
  page,              \* which page is loaded: "enhanced" or "simple"
  loaded,            \* DOMContentLoaded has fired
  symbolInput,       \* value of #symbolInput when the page loads
  currentIndicator,  \* enhanced_app.js: let currentIndicator
  currentStockData,  \* window.currentStockData (None while unset)
  priceChart,        \* enhanced_app.js: let priceChart
  indicatorChart,    \* enhanced_app.js: let indicatorChart
  chart,             \* app.js: let chart
  status,            \* #status
  stockInfoBox,      \* #stockInfoBox
  technicalSummary,  \* #technicalSummary
  tradingSignals,    \* #tradingSignals
  analysisBox,       \* #analysisBox (both pages)
  summaryBox,        \* #summaryBox (simple page)
  indicesGrid,       \* #indicesGrid
  queries,           \* the stock queries issued so far, in order of issue
  received,          \* response and data of the continuation run by the last step
  overview,          \* the one call of loadMarketOverview
  uncaught,          \* number of handlers that ended with an uncaught exception
  clicks             \* indicator tab clicks so far

vars ==
  << page, loaded, symbolInput, currentIndicator, currentStockData, priceChart,
     indicatorChart, chart, status, stockInfoBox, technicalSummary, tradingSignals,
     analysisBox, summaryBox, indicesGrid, queries, received, overview, uncaught,
     clicks >>

\* the dataset.indicator values of the .tab-btn buttons
TabIndicators == { "rsi", "macd", "volume" }

\* a page that starts with another tab selected than the one marked active
InitialIndicatorMacd == "macd"

\* enhanced_app.js line 4: let currentIndicator = 'rsi'
InitialIndicator == "rsi"

\* the last step was no continuation that handles a response
NothingReceived == [ of |-> "none", q |-> 0, status |-> 0, json |-> None ]

Init ==
  /\ page \in { "enhanced", "simple" }
  /\ loaded = FALSE
  /\ symbolInput \in InputValues
  /\ currentIndicator = InitialIndicator
  /\ currentStockData = None
  /\ priceChart = None
  /\ indicatorChart = None
  /\ chart = None
  /\ status = InitialStatus
  /\ stockInfoBox = Placeholder("initial")
  /\ technicalSummary = TextPanel("initial", "")
  /\ tradingSignals = SignalPanel("initial", "", 0, << >>)
  /\ analysisBox = TextPanel("initial", "")
  /\ summaryBox = SummaryPlaceholder("initial")
  /\ indicesGrid = Grid("initial", << >>)
  /\ queries = << >>
  /\ received = NothingReceived
  /\ overview = [ pc |-> "idle" ]
  /\ uncaught = 0
  /\ clicks = 0

\* a query that has just been issued: its fetch is pending
NewQuery(symbol, period, interval, analysisType) ==
  [ symbol |-> symbol, period |-> period, interval |-> interval,
    analysisType |-> analysisType, pc |-> "awaitFetch" ]

\* a fetchStockData that puts the indicator selection back to its default
fetchStockDataStartResetsTab(symbol, period, interval, analysisType) ==
  /\ status' = StatusLoading(symbol)
  /\ stockInfoBox' = Placeholder("loading")
  /\ technicalSummary' = TextPanel("loading", "")
  /\ tradingSignals' = SignalPanel("loading", "", 0, << >>)
  /\ analysisBox' = TextPanel("loading", "")
  /\ queries' = Append(queries, NewQuery(symbol, period, interval, analysisType))
  /\ currentIndicator' = InitialIndicator
  /\ UNCHANGED << summaryBox, currentStockData, priceChart, indicatorChart, chart >>

\* fetchStockData up to `await fetch(...)` (lines 90-113)
fetchStockDataStart(symbol, period, interval, analysisType) ==
  /\ status' = StatusLoading(symbol)
  /\ stockInfoBox' = Placeholder("loading")
  /\ technicalSummary' = TextPanel("loading", "")
  /\ tradingSignals' = SignalPanel("loading", "", 0, << >>)
  /\ analysisBox' = TextPanel("loading", "")
  /\ queries' = Append(queries, NewQuery(symbol, period, interval, analysisType))
  /\ UNCHANGED << summaryBox, currentStockData, priceChart, indicatorChart, chart,
                  currentIndicator >>

\* fetchStock up to `await fetch(...)` (app.js lines 4-13)
fetchStockStart(symbol) ==
  /\ status' = SimpleStatus(status, StatusLoading(symbol))
  /\ summaryBox' = SummaryPlaceholder("loading")
  /\ analysisBox' = TextPanel("loading", "")
  /\ queries' = Append(queries, NewQuery(symbol, "", "", ""))
  /\ UNCHANGED << stockInfoBox, technicalSummary, tradingSignals, currentStockData,
                  priceChart, indicatorChart, chart, currentIndicator >>

NoQueryIssued ==
  UNCHANGED << status, stockInfoBox, technicalSummary, tradingSignals, analysisBox,
               summaryBox, currentStockData, priceChart, indicatorChart, chart,
               currentIndicator, queries >>

\* enhanced_app.js 7-10: initializeApp(), then loadMarketOverview() up to its
\* `await fetch(...)`
EnhancedDOMContentLoaded ==
  /\ page = "enhanced"
  /\ ~loaded
  /\ loaded' = TRUE
  /\ IF Truthy(symbolInput)
     THEN fetchStockDataStart(Trim(symbolInput), "1mo", "1d", "quick")
     ELSE NoQueryIssued
  /\ indicesGrid' = Grid("loading", << >>)
  /\ overview' = [ overview EXCEPT !.pc = "awaitFetch" ]
  /\ received' = NothingReceived
  /\ UNCHANGED << page, symbolInput, uncaught, clicks >>

\* app.js 81-95
SimpleDOMContentLoaded ==
  /\ page = "simple"
  /\ ~loaded
  /\ loaded' = TRUE
  /\ IF Truthy(symbolInput)
     THEN fetchStockStart(Trim(symbolInput))
     ELSE NoQueryIssued
  /\ received' = NothingReceived
  /\ UNCHANGED << page, symbolInput, indicesGrid, overview, uncaught, clicks >>

\* enhanced_app.js 17-27: the query form is submitted with v in the symbol
\* input (the selects hold their defaults)
EnhancedSubmit(v) ==
  /\ page = "enhanced"
  /\ loaded
  /\ LET symbol == Trim(v)
     IN  IF ~Truthy(symbol)
         THEN NoQueryIssued
         ELSE /\ Len(queries) < MaxQueries
              /\ fetchStockDataStart(symbol, "1mo", "1d", "quick")
  /\ received' = NothingReceived
  /\ UNCHANGED << page, loaded, symbolInput, indicesGrid, overview, uncaught, clicks >>

\* app.js 85-90: the query form is submitted with v in the symbol input
SimpleSubmit(v) ==
  /\ page = "simple"
  /\ loaded
  /\ LET symbol == Trim(v)
     IN  IF ~Truthy(symbol)
         THEN NoQueryIssued
         ELSE /\ Len(queries) < MaxQueries
              /\ fetchStockStart(symbol)
  /\ received' = NothingReceived
  /\ UNCHANGED << page, loaded, symbolInput, indicesGrid, overview, uncaught, clicks >>

\* a click handler that selects the indicator without rendering its chart
TabClickNoRender(ind) ==
  /\ page = "enhanced"
  /\ loaded
  /\ clicks < MaxClicks
  /\ clicks' = clicks + 1
  /\ currentIndicator' = ind
  /\ UNCHANGED << page, loaded, symbolInput, currentStockData, priceChart, indicatorChart,
                  chart, status, stockInfoBox, technicalSummary, tradingSignals, analysisBox,
                  summaryBox, indicesGrid, queries, overview, uncaught >>
  /\ received' = NothingReceived

\* enhanced_app.js 32-40: click handler of the tab button of indicator ind
TabClick(ind) ==
  /\ page = "enhanced"
  /\ loaded
  /\ clicks < MaxClicks
  /\ clicks' = clicks + 1
  /\ currentIndicator' = ind
  /\ IF IsSome(currentStockData)
     THEN \E rand \in RandomDraws(Get(currentStockData), ind) :
            LET r == renderIndicatorChart(indicatorChart, Get(currentStockData), ind, rand)
            IN  /\ indicatorChart' = r.chart
                /\ uncaught' = IF r.threw THEN uncaught + 1 ELSE uncaught
     ELSE UNCHANGED << indicatorChart, uncaught >>
  /\ UNCHANGED << page, loaded, symbolInput, currentStockData, priceChart, chart, status,
                  stockInfoBox, technicalSummary, tradingSignals, analysisBox, summaryBox,
                  indicesGrid, queries, overview >>
  /\ received' = NothingReceived

\* ------------------------------------------------- completion of a query
Pending(q, pc) == q \in DOMAIN queries /\ queries[q].pc = pc

\* `await fetch(...)` resolves: the function goes on to `await response.json()`
\* (enhanced_app.js 113-114, app.js 13-14)
StockFetchResolve(q) ==
  /\ Pending(q, "awaitFetch")
  /\ queries' = [ queries EXCEPT ![q].pc = "awaitJson" ]
  /\ received' = NothingReceived
  /\ UNCHANGED << page, loaded, symbolInput, currentIndicator, currentStockData, priceChart,
                  indicatorChart, chart, status, stockInfoBox, technicalSummary,
                  tradingSignals, analysisBox, summaryBox, indicesGrid, overview,
                  uncaught, clicks >>

\* the call has returned: its parameters are gone
Finished(q) ==
  [ queries EXCEPT ![q] = [ symbol |-> << >>, period |-> "", interval |-> "",
                            analysisType |-> "", pc |-> "done" ] ]

\* the fetch of query q was rejected: no response
NoResponse(q) == [ of |-> "stock", q |-> q, status |-> 0, json |-> None ]

\* query q got the response resp
Received(q, resp) ==
  [ of |-> "stock", q |-> q, status |-> resp.status, json |-> resp.json ]

\* enhanced_app.js 145-149: the catch block of fetchStockData
EnhancedCatch(name) ==
  /\ status' = StatusException(name)

\* a catch block that issues the failed query again
EnhancedFetchRejectRetries(q) ==
  /\ page = "enhanced"
  /\ Pending(q, "awaitFetch")
  /\ Len(queries) < MaxQueries
  /\ queries' = Append(Finished(q), NewQuery(queries[q].symbol, queries[q].period,
                                              queries[q].interval, queries[q].analysisType))
  /\ received' = NoResponse(q)
  /\ EnhancedCatch("NetworkError")
  /\ UNCHANGED << page, loaded, symbolInput, currentIndicator, currentStockData, priceChart,
                  indicatorChart, chart, stockInfoBox, technicalSummary, tradingSignals,
                  analysisBox, summaryBox, indicesGrid, overview, uncaught, clicks >>

\* `await fetch(...)` rejects (network failure): the catch block runs
EnhancedFetchReject(q) ==
  /\ page = "enhanced"
  /\ Pending(q, "awaitFetch")
  /\ queries' = Finished(q)
  /\ received' = NoResponse(q)
  /\ EnhancedCatch("NetworkError")
  /\ UNCHANGED << page, loaded, symbolInput, currentIndicator, currentStockData, priceChart,
                  indicatorChart, chart, stockInfoBox, technicalSummary, tradingSignals,
                  analysisBox, summaryBox, indicesGrid, overview, uncaught, clicks >>

\* enhanced_app.js 116-126: the branch of a non-2xx status or an error field
EnhancedApiError(data, st) ==
  /\ status' = StatusApiError(data.error, st)
  /\ stockInfoBox' = Placeholder("failed")
  /\ technicalSummary' = TextPanel("failed", "")
  /\ tradingSignals' = SignalPanel("failed", "", 0, << >>)
  /\ analysisBox' = TextPanel("failed", "")
  /\ UNCHANGED << currentStockData, priceChart, indicatorChart >>

\* a store that merges the new body into the old one: a field the new body
\* lacks keeps its old value
StoreMerged(old, data) ==
  IF ~IsSome(old) THEN Some(data)
  ELSE Some([ f \in DOMAIN data |->
                IF f /= "period" /\ data[f] = None THEN Get(old)[f] ELSE data[f] ])

\* window.currentStockData = data  (line 129)
Store(old, data) == Some(data)

\* enhanced_app.js 128-143: the success path; a statement that throws leaves
\* what was assigned before it and hands over to the catch block
EnhancedSuccess(q, data) ==
  /\ currentStockData' = Store(currentStockData, data)
  /\ IF ~IsSome(data.data)
     THEN \* line 133: data.data.length throws
          /\ EnhancedCatch("TypeError")
          /\ UNCHANGED << stockInfoBox, technicalSummary, tradingSignals, analysisBox,
                          priceChart, indicatorChart >>
     ELSE IF ~IsSome(data.technical_indicators)
     THEN \* line 137: data.technical_indicators.summary throws
          /\ stockInfoBox' = updateStockInfo(data.stock_info)
          /\ EnhancedCatch("TypeError")
          /\ UNCHANGED << technicalSummary, tradingSignals, analysisBox,
                          priceChart, indicatorChart >>
     ELSE /\ stockInfoBox' = updateStockInfo(data.stock_info)
          /\ technicalSummary' = updateTechnicalSummary(Get(data.technical_indicators).summary)
          /\ tradingSignals' = updateTradingSignals(Get(data.technical_indicators).signals)
          /\ analysisBox' = updateAnalysis(data.analysis)
          /\ \E rand \in RandomDraws(data, currentIndicator) :
               LET p == renderPriceChart(priceChart, data)
                   i == renderIndicatorChart(indicatorChart, data, currentIndicator, rand)
               IN  /\ priceChart' = p.chart
                   /\ indicatorChart' = IF p.threw THEN indicatorChart ELSE i.chart
                   /\ status' = IF p.threw \/ i.threw
                                THEN StatusException("TypeError")
                                ELSE StatusSuccess(queries[q].symbol, Len(Get(data.data)))

\* the rest of fetchStockData after `await response.json()` (lines 114-149),
\* the response being resp
EnhancedJsonSettle(q, resp) ==
  /\ page = "enhanced"
  /\ Pending(q, "awaitJson")
  /\ queries' = Finished(q)
  /\ received' = Received(q, resp)
  /\ LET st   == resp.status
         json == resp.json
     IN  IF ~IsSome(json)
         THEN \* response.json() rejects
              /\ EnhancedCatch("SyntaxError")
              /\ UNCHANGED << currentStockData, priceChart, indicatorChart, stockInfoBox,
                              technicalSummary, tradingSignals, analysisBox >>
         ELSE IF ~ResponseOk(st) \/ IsSome(Get(json).error)
         THEN EnhancedApiError(Get(json), st)
         ELSE EnhancedSuccess(q, Get(json))
  /\ UNCHANGED << page, loaded, symbolInput, currentIndicator, chart, summaryBox,
                  indicesGrid, overview, uncaught, clicks >>

\* app.js 48-52: the catch block of fetchStock
SimpleCatch(name) ==
  /\ status' = SimpleStatus(status, StatusException(name))
  /\ summaryBox' = SummaryPlaceholder("noData")
  /\ analysisBox' = TextPanel("noAnalysis", "")

\* `await fetch(...)` rejects on the simple page
SimpleFetchReject(q) ==
  /\ page = "simple"
  /\ Pending(q, "awaitFetch")
  /\ queries' = Finished(q)
  /\ received' = NoResponse(q)
  /\ SimpleCatch("NetworkError")
  /\ UNCHANGED << page, loaded, symbolInput, currentIndicator, currentStockData, priceChart,
                  indicatorChart, chart, stockInfoBox, technicalSummary, tradingSignals,
                  indicesGrid, overview, uncaught, clicks >>

\* the rest of fetchStock after `await resp.json()` (app.js lines 14-52), the
\* response being resp
SimpleJsonSettle(q, resp) ==
  /\ page = "simple"
  /\ Pending(q, "awaitJson")
  /\ queries' = Finished(q)
  /\ received' = Received(q, resp)
  /\ LET st   == resp.status
         json == resp.json
     IN  IF ~IsSome(json)
         THEN SimpleCatch("SyntaxError") /\ UNCHANGED chart
         ELSE LET data == Get(json)
              IN  IF ~ResponseOk(st) \/ IsSome(data.error)
                  THEN \* lines 16-22
                       /\ status' = SimpleStatus(status, StatusApiError(data.error, st))
                       /\ summaryBox' = SummaryPlaceholder("noData")
                       /\ analysisBox' = TextPanel("noAnalysis", "")
                       /\ UNCHANGED chart
                  ELSE IF ~IsSome(data.points) \/ ~IsSome(data.summary)
                  THEN \* line 24 (data.points.length) or line 28 (s.symbol) throws
                       SimpleCatch("TypeError") /\ UNCHANGED chart
                  ELSE LET s == Get(data.summary)
                           points == Get(data.points)
                           time(pt)  == pt.time
                           close(pt) == pt.close
                       IN  /\ status' = SimpleStatus(status,
                                                    StatusSuccess(queries[q].symbol, Len(points)))
                           /\ summaryBox' = SummaryLines(s)
                           /\ chart' = renderChart(chart, data, Map(time, points),
                                                   Map(close, points), s.symbol)
                           /\ analysisBox' = IF IsSome(data.llm_analysis)
                                             THEN TextPanel("llm", Get(data.llm_analysis))
                                             ELSE TextPanel("llmDisabled", "")
  /\ UNCHANGED << page, loaded, symbolInput, currentIndicator, currentStockData, priceChart,
                  indicatorChart, stockInfoBox, technicalSummary, tradingSignals,
                  indicesGrid, overview, uncaught, clicks >>

\* ---------------------------------------- completion of loadMarketOverview
OverviewFrame ==
  /\ UNCHANGED << page, loaded, symbolInput, currentIndicator, currentStockData, priceChart,
                  indicatorChart, chart, status, stockInfoBox, technicalSummary,
                  tradingSignals, analysisBox, summaryBox, queries, uncaught, clicks >>

\* `await fetch('/api/market_overview')` resolves (lines 55-56)
OverviewFetchResolve ==
  /\ overview.pc = "awaitFetch"
  /\ overview' = [ overview EXCEPT !.pc = "awaitJson" ]
  /\ received' = NothingReceived
  /\ UNCHANGED indicesGrid
  /\ OverviewFrame

\* `await fetch('/api/market_overview')` rejects: lines 83-86
OverviewFetchReject ==
  /\ overview.pc = "awaitFetch"
  /\ overview' = [ overview EXCEPT !.pc = "done" ]
  /\ received' = [ of |-> "overview", q |-> 0, status |-> 0, json |-> None ]
  /\ indicesGrid' = Grid("failed", << >>)
  /\ OverviewFrame

\* the rest of loadMarketOverview after `await response.json()` (lines 56-86),
\* the response being resp
OverviewJsonSettle(resp) ==
  /\ overview.pc = "awaitJson"
  /\ overview' = [ overview EXCEPT !.pc = "done" ]
  /\ received' = [ of |-> "overview", q |-> 0, status |-> resp.status, json |-> resp.json ]
  /\ indicesGrid' = OverviewGrid(resp.status, resp.json)
  /\ OverviewFrame

\* ----------------------------------------------------------- specification
Next ==
  \/ EnhancedDOMContentLoaded
  \/ SimpleDOMContentLoaded
  \/ \E v \in InputValues : EnhancedSubmit(v)
  \/ \E v \in InputValues : SimpleSubmit(v)
  \/ \E ind \in TabIndicators : TabClick(ind)
  \/ \E q \in DOMAIN queries : StockFetchResolve(q)
  \/ \E q \in DOMAIN queries : EnhancedFetchReject(q)
  \/ \E q \in DOMAIN queries :
       \E resp \in Responses(page, queries[q].symbol) : EnhancedJsonSettle(q, resp)
  \/ \E q \in DOMAIN queries : SimpleFetchReject(q)
  \/ \E q \in DOMAIN queries :
       \E resp \in Responses(page, queries[q].symbol) : SimpleJsonSettle(q, resp)
  \/ OverviewFetchResolve
  \/ OverviewFetchReject
  \/ \E resp \in OverviewResponses : OverviewJsonSettle(resp)

Spec == Init /\ [][Next]_vars

\* ------------------------------------------------------------------ claims
\* the step completes query q: its handler runs to its end
Completes(q) == queries[q].pc /= "done" /\ queries'[q].pc = "done"

\* the step completes query q with a response (its fetch was not rejected)
Answers(q) ==
  Completes(q) /\ received'.of = "stock" /\ received'.q = q /\ received'.status /= 0

\* the step completes a query that is not the newest, the newest having completed
StaleCompletion(q) ==
  Completes(q) /\ q < Len(queries) /\ queries[Len(queries)].pc = "done"

AllDone == queries /= << >> /\ \A q \in DOMAIN queries : queries[q].pc = "done"

StatusFailed(st) == st.kind \in { "apiError", "exception" }

\* The page did not load with a whitespace-only input: every query of the run
\* is for a non-empty symbol.  C1-C4 and C6-C9 are checked on these runs, so
\* that what they find does not rest on the empty-symbol query of C5.
ProperQueries == Truthy(symbolInput) => Truthy(Trim(symbolInput))

\* C1: last request wins for the store: the completion of a query that is not
\* the most recently issued one never writes window.currentStockData; in
\* particular not when its response arrives after that of the newest query.
C1_OlderQueryNeverWritesStore ==
  [][ \A q \in DOMAIN queries :
        (ProperQueries /\ StaleCompletion(q)) => currentStockData' = currentStockData ]_vars

\* C2: a stale response is discarded on the display side: when a query that is
\* not the most recently issued one completes after the newest query has
\* completed, the status line, the text panels and the charts keep what they show.
C2_StaleCompletionKeepsDisplay ==
  [][ \A q \in DOMAIN queries :
        (ProperQueries /\ StaleCompletion(q))
          => UNCHANGED << status, stockInfoBox, technicalSummary, tradingSignals,
                          analysisBox, summaryBox, priceChart, indicatorChart, chart >> ]_vars

\* C3: retention rule: a query that ends in failure (status line in the error
\* state) leaves the stored stock data and both charts as they were.
C3_FailureRetainsStoreAndCharts ==
  [][ \A q \in DOMAIN queries :
        (ProperQueries /\ Completes(q) /\ StatusFailed(status'))
          => UNCHANGED << currentStockData, priceChart, indicatorChart >> ]_vars

\* C4: no panel stays loading: once every issued query has completed, neither
\* the status line nor any text panel shows its loading placeholder.
C4_NoPanelLeftLoading ==
  (ProperQueries /\ AllDone) =>
    /\ status.kind /= "loading"
    /\ stockInfoBox.kind /= "loading"
    /\ technicalSummary.kind /= "loading"
    /\ tradingSignals.kind /= "loading"
    /\ analysisBox.kind /= "loading"
    /\ summaryBox.kind /= "loading"

\* C5: empty input is a no-op: no query is ever issued for an empty symbol, and
\* a page initialisation whose input value trimmed of whitespace is empty
\* issues no request and leaves the status line, panels, charts, stored data
\* and selected indicator unchanged.
C5_EmptyInputIsNoOp ==
  [][ /\ Len(queries') > Len(queries) => Truthy(queries'[Len(queries')].symbol)
      /\ (~loaded /\ loaded' /\ Trim(symbolInput) = << >>)
           => UNCHANGED << queries, status, stockInfoBox, technicalSummary, tradingSignals,
                           analysisBox, summaryBox, priceChart, indicatorChart, chart,
                           currentStockData, currentIndicator >> ]_vars

\* C6: mutual consistency of the charts: whenever both the price chart and the
\* indicator chart exist, both were rendered from the same response object,
\* and that object is the stored one.
C6_ChartsFromStoredData ==
  (ProperQueries /\ IsSome(priceChart) /\ IsSome(indicatorChart))
    => /\ Get(priceChart).src = Get(indicatorChart).src
       /\ currentStockData = Some(Get(priceChart).src)

\* the error field of what a response carried (None when it carried no JSON)
ErrorOf(json) == IF IsSome(json) THEN Get(json).error ELSE None

\* C7: a response with a non-2xx status or a body-level error field ends the
\* query with the status line showing body.error if present and else the HTTP
\* status message, the panels on their failure placeholders, and the stored
\* data and the charts untouched.
C7_ApiFailureUniform ==
  [][ \A q \in DOMAIN queries :
        (ProperQueries /\ Answers(q)
           /\ (~ResponseOk(received'.status) \/ IsSome(ErrorOf(received'.json))))
          => /\ status'.kind = "apiError"
             /\ status'.msg = ErrorMsg(ErrorOf(received'.json), received'.status)
             /\ page = "enhanced" =>
                  /\ status'.className = "status error"
                  /\ stockInfoBox'.kind = "failed"
                  /\ technicalSummary'.kind = "failed"
                  /\ tradingSignals'.kind = "failed"
                  /\ analysisBox'.kind = "failed"
             /\ page = "simple" =>
                  /\ summaryBox'.kind = "noData"
                  /\ analysisBox'.kind = "noAnalysis"
             /\ UNCHANGED << currentStockData, priceChart, indicatorChart, chart >> ]_vars

\* a 2xx body without error field that lacks stock_info, technical_indicators or rsi
LacksOptionalField(resp) ==
  /\ ResponseOk(resp.status)
  /\ IsSome(resp.json)
  /\ ~IsSome(Get(resp.json).error)
  /\ IsSome(Get(resp.json).data)
  /\ \/ ~IsSome(Get(resp.json).stock_info)
     \/ ~IsSome(Get(resp.json).technical_indicators)
     \/ ~IsSome(Get(resp.json).rsi)

\* C8: missing optional fields are tolerated: a successful response that lacks
\* stock_info, technical_indicators or rsi ends the query in the success state,
\* with the data stored, both charts rendered from it, and the panel of each
\* absent field on its unavailable placeholder.
C8_MissingOptionalTolerated ==
  [][ \A q \in DOMAIN queries :
        (ProperQueries /\ page = "enhanced" /\ Answers(q) /\ LacksOptionalField(received'))
          => LET data == Get(received'.json)
             IN  /\ status'.className = "status success"
                 /\ currentStockData' = Some(data)
                 /\ Live(priceChart') /\ Get(priceChart').src = data
                 /\ Live(indicatorChart') /\ Get(indicatorChart').src = data
                 /\ ~IsSome(data.stock_info) => stockInfoBox'.kind = "unavailable"
                 /\ ~IsSome(data.technical_indicators) =>
                      /\ technicalSummary' = updateTechnicalSummary(None)
                      /\ tradingSignals'.kind = "noSignals" ]_vars

\* the volume values of the rows of a body
VolumesOf(data) == [ i \in 1..Len(Get(data.data)) |-> Get(data.data)[i].volume ]

\* C9: a tab click affects the indicator chart only: the price chart, the status
\* line, the text panels, the overview grid and the stored data are unchanged,
\* and when data is stored the indicator chart is rendered anew from it with
\* the kind just selected (for volume, its volume values).
C9_TabClickRendersIndicatorOnly ==
  [][ (ProperQueries /\ clicks' /= clicks)
        => /\ UNCHANGED << priceChart, status, stockInfoBox, technicalSummary,
                           tradingSignals, analysisBox, indicesGrid, currentStockData >>
           /\ IsSome(currentStockData) =>
                /\ Live(indicatorChart')
                /\ Get(indicatorChart').src = Get(currentStockData)
                /\ Get(indicatorChart').kind = currentIndicator'
                /\ currentIndicator' = "volume" =>
                     /\ Len(Get(indicatorChart').datasets) = 1
                     /\ Get(indicatorChart').datasets[1].data
                          = VolumesOf(Get(currentStockData)) ]_vars

\* C10: the selected indicator is always one of rsi, macd, volume, and it is
\* rsi as long as no tab has been clicked.
C10_IndicatorIsOneKind ==
  /\ currentIndicator \in { "rsi", "macd", "volume" }
  /\ clicks = 0 => currentIndicator = "rsi"

\* a tab has been clicked and the selection has moved to volume
C10_Witness == clicks > 0 /\ currentIndicator = "volume"

\* C11: the selected indicator changes only on a tab click: issuing a stock
\* query, the completion of a stock query (success or failure) and every step
\* of the market-overview load leave currentIndicator as it is.
C11_IndicatorChangesOnlyOnClick ==
  [][ clicks' = clicks => currentIndicator' = currentIndicator ]_vars

\* macd was selected by a click, the queries issued have completed, the last
\* one in success, the overview load is over, and macd is still the selection
C11_Witness ==
  /\ clicks > 0
  /\ currentIndicator = "macd"
  /\ Len(queries) = MaxQueries
  /\ AllDone
  /\ status.kind = "success"
  /\ overview.pc = "done"

\* C12: chart widget lifecycle: none of the variables priceChart,
\* indicatorChart and chart ever refers to a disposed instance, and no instance
\* is disposed more than once.
C12_ChartVariableNeverDisposed ==
  ProperQueries =>
    \A c \in { priceChart, indicatorChart, chart } :
      IsSome(c) => Get(c).destroyed = 0

\* what a chart widget displays
ChartContent(c) ==
  [ kind |-> c.kind, labels |-> c.labels, datasets |-> c.datasets, title |-> c.title ]

\* the step runs the chart renderers: a tab click, or a query ending in success
RendersCharts ==
  \/ clicks' /= clicks
  \/ \E q \in DOMAIN queries : Completes(q) /\ status'.kind = "success"

\* both charts show the stored data under the selected indicator
RenderedOnce ==
  /\ Live(priceChart) /\ Live(indicatorChart)
  /\ currentStockData = Some(Get(indicatorChart).src)
  /\ currentStockData = Some(Get(priceChart).src)
  /\ Get(indicatorChart).kind = currentIndicator

\* C13: rendering is idempotent: when the charts show the stored data under the
\* selected indicator and the renderers run again with the same stored data and
\* the same indicator, both charts show the same labels and series values as
\* before and each chart has one live widget.
C13_RenderTwiceSameContent ==
  [][ ( /\ ProperQueries
        /\ RenderedOnce
        /\ RendersCharts
        /\ currentStockData' = currentStockData
        /\ currentIndicator' = currentIndicator )
        => /\ Live(priceChart') /\ Live(indicatorChart')
           /\ ChartContent(Get(priceChart')) = ChartContent(Get(priceChart))
           /\ ChartContent(Get(indicatorChart')) = ChartContent(Get(indicatorChart)) ]_vars

\* the values of the rsi series of a body
RsiValuesOf(data) == [ i \in 1..Len(Get(data.rsi)) |-> Get(data.rsi)[i].value ]

\* C14: series derivation: a live indicator chart shows the series the backend
\* supplied for its kind (rsi values, volume values); for macd, of which the
\* response carries no series, it shows no data series at all.
C14_SeriesSuppliedOrUnavailable ==
  (ProperQueries /\ Live(indicatorChart)) =>
    LET c    == Get(indicatorChart)
        data == c.src
    IN  /\ (c.kind = "rsi" /\ IsSome(data.rsi) /\ Len(Get(data.rsi)) > 0) =>
             /\ Len(c.datasets) = 1
             /\ c.datasets[1].data = RsiValuesOf(data)
        /\ c.kind = "volume" =>
             /\ Len(c.datasets) = 1
             /\ c.datasets[1].data = VolumesOf(data)
        /\ c.kind = "macd" => c.datasets = << >>

\* the step is a completion of a stock query, a step of the overview load, or
\* a tab click
CompletionOrClick ==
  \/ \E q \in DOMAIN queries : queries'[q] /= queries[q]
  \/ overview' /= overview
  \/ clicks' /= clicks

\* C15: no automatic retries and one overview fetch: the overview request is
\* issued once, by the page load; a stock request is issued one at a time, by
\* the page load (auto-query) or by a form submit, never by a step that
\* completes a query or the overview load, whatever its outcome, nor by a tab
\* click.
C15_NoRetrySingleOverview ==
  [][ /\ Len(queries') > Len(queries) =>
           /\ Len(queries') = Len(queries) + 1
           /\ (~loaded /\ loaded') \/ ~CompletionOrClick
      /\ (overview'.pc = "awaitFetch" /\ overview.pc /= "awaitFetch") => (~loaded /\ loaded')
      /\ (page = "enhanced" /\ ~loaded /\ loaded') => overview'.pc = "awaitFetch"
      /\ overview.pc /= "idle" => overview'.pc /= "idle"
      /\ loaded => loaded' ]_vars

\* the one query issued and the overview load have both failed, and no further
\* request has been issued
C15_Witness ==
  /\ Len(queries) = 1
  /\ AllDone
  /\ status.kind = "exception"
  /\ overview.pc = "done"
  /\ indicesGrid.kind = "failed"

\* the step completes the overview load
OverviewCompletes == overview.pc /= "done" /\ overview'.pc = "done"

\* the overview response is a success that carries a mapping
OverviewOk(resp) ==
  /\ ResponseOk(resp.status)
  /\ IsSome(resp.json)
  /\ ~IsSome(Get(resp.json).error)
  /\ IsSome(Get(resp.json).market_overview)

\* C16: market overview outcome: the completion of the overview load replaces
\* the loading placeholder, by one card per entry of the received mapping in
\* received order (zero cards and no failure placeholder for an empty mapping)
\* or else by the failure placeholder; no step of the load after the page load
\* changes the status line, the stock panels, the charts or the stored data.
C16_OverviewOutcome ==
  [][ /\ OverviewCompletes =>
           IF OverviewOk(received')
           THEN LET entries == Get(Get(received'.json).market_overview)
                IN  /\ indicesGrid'.kind = "cards"
                    /\ Len(indicesGrid'.cards) = Len(entries)
                    /\ \A i \in 1..Len(entries) : indicesGrid'.cards[i].name = entries[i].name
           ELSE indicesGrid' = Grid("failed", << >>)
      /\ (loaded /\ overview' /= overview) =>
           UNCHANGED << status, stockInfoBox, technicalSummary, tradingSignals, analysisBox,
                        summaryBox, priceChart, indicatorChart, chart, currentStockData >> ]_vars

\* the overview load has ended with zero cards while a stock query is in flight
C16_Witness ==
  /\ overview.pc = "done"
  /\ indicesGrid = Grid("cards", << >>)
  /\ \E q \in DOMAIN queries : queries[q].pc = "awaitJson"

\* C17: no uncaught faults: no handler (query completion, overview completion,
\* tab click) ever ends with an uncaught exception.
C17_NoUncaughtFaults == ProperQueries => uncaught = 0

\* C18: the stored stock data is only ever a success body: after every step it
\* carries no error field; it is written only by the completion of a query whose response
\* had a 2xx status and a body without error field, and then it is that body,
\* whole; once set it is never cleared.
C18_StoreHoldsSuccessBody ==
  [][ /\ IsSome(currentStockData') => ~IsSome(Get(currentStockData').error)
      /\ currentStockData' /= currentStockData =>
           \E q \in DOMAIN queries :
             /\ Answers(q)
             /\ ResponseOk(received'.status)
             /\ IsSome(received'.json)
             /\ ~IsSome(Get(received'.json).error)
             /\ currentStockData' = received'.json
      /\ IsSome(currentStockData) => IsSome(currentStockData') ]_vars

\* two queries have completed and the store holds the body of the second, a
\* success body for M without rsi
C18_Witness ==
  /\ Len(queries) = 2
  /\ AllDone
  /\ status.kind = "success"
  /\ IsSome(currentStockData)
  /\ Get(currentStockData).symbol = << "M" >>
  /\ ~IsSome(Get(currentStockData).rsi)

\* C19: the indicator chart matches the selection: after every step a live
\* indicator chart is one rendered with the kind that is selected; a tab click made while no stock
\* data is stored creates no widget; a query that ends in success renders the
\* indicator chart from the stored data with the selected kind.
C19_IndicatorChartMatchesSelection ==
  [][ /\ Live(indicatorChart') => Get(indicatorChart').kind = currentIndicator'
      /\ (clicks' /= clicks /\ ~IsSome(currentStockData)) =>
           (indicatorChart = None /\ indicatorChart' = None)
      /\ \A q \in DOMAIN queries :
           (Completes(q) /\ status'.kind = "success" /\ page = "enhanced") =>
             /\ Live(indicatorChart')
             /\ Get(indicatorChart').kind = currentIndicator'
             /\ currentStockData' = Some(Get(indicatorChart').src) ]_vars

\* volume was selected by a click and the one query issued has ended in
\* success with a live indicator chart of kind volume
C19_Witness ==
  /\ clicks > 0
  /\ Len(queries) = 1
  /\ status.kind = "success"
  /\ Live(indicatorChart)
  /\ Get(indicatorChart).kind = "volume"

=============================================================================
